---- MODULE Spec2Model ----
(***************************************************************************)
(* Staffing Sandbox (noahbisel/Staffing-Playground): the canonical table   *)
(* kept in the Streamlit session, its utilization recompute, the CSV       *)
(* ingestion, the Settings / Editor handlers and the bounded undo stack.   *)
(*                                                                         *)
(* A pandas DataFrame is an object: the session holds a reference to the   *)
(* current frame and the undo stack holds references to snapshots, so the  *)
(* model keeps a heap of frames and says for every statement whether it    *)
(* writes in place (df.at, df.loc, df[c] = v, df.update, the recompute) or *)
(* builds a new frame (copy, drop, the upload).                            *)
(*                                                                         *)
(* Assumptions about pandas that the source relies on and the model takes  *)
(* as given: a column keeps its numeric dtype when a row is appended; the  *)
(* hour cells of the session's table hold integers (the files uploaded in  *)
(* Spec have no empty cell; the NaN the pivot's join can leave is kept in  *)
(* what process_uploaded_file returns); an uploaded wide file has one row  *)
(* per employee.                                                           *)
(*                                                                         *)
(* Spec and SpecHist run the session's handlers; SpecRecompute, SpecIngest *)
(* and SpecMargin call recalculate_utilization, process_uploaded_file and  *)
(* calculate_margin (app.py and utils.py) on their own, on arguments drawn *)
(* from bounded sets.  Floats that are quotients are kept as exact         *)
(* fractions.                                                              *)
(***************************************************************************)
EXTENDS Integers, Sequences, FiniteSets, TLC

VARIABLES heap, df, undo_stack, program_mrr, last_processed,
          budget, last, prev, run,
          arg, out

\* the session and its bookkeeping
session == <<heap, df, undo_stack, program_mrr, last_processed, budget, last, prev, run>>
\* arg, out: the argument and the results of a function of the metrics or
\* ingestion layer called on its own
vars == <<heap, df, undo_stack, program_mrr, last_processed, budget, last, prev, run,
          arg, out>>

\* ------------------------------------------------------------------ bounds
\* Handler runs allowed in one behaviour of Spec.
MaxOps == 3

\* Calls of recalculate_utilization on one table in SpecRecompute.
RecomputePasses == 2

\* Rows of an ingested file in SpecIngest.
MaxRows == 2

\* ------------------------------------------------------- program constants
\* app.py:207  len(undo_stack) > 10
HistoryLimit == 10
\* app.py:33, app.py:507, utils.py:6
STANDARD_CAPACITY == 152

ObjIds == 0 .. (HistoryLimit + 1)
NoObj == [none |-> TRUE]
Unset == "<unset>"

Min(a, b) == IF a < b THEN a ELSE b

RECURSIVE SumOver(_, _)
SumOver(f, S) ==
  IF S = {} THEN 0
  ELSE LET x == CHOOSE y \in S : TRUE IN f[x] + SumOver(f, S \ {x})

\* numpy's round(0) followed by astype(int): the nearest integer of n / d
\* (d > 0), a tie going to the even neighbour.
RoundHalfEven(n, d) ==
  LET q == n \div d
      r == n % d
  IN  IF 2 * r < d THEN q
      ELSE IF 2 * r > d THEN q + 1
      ELSE IF q % 2 = 0 THEN q ELSE q + 1

\* ------------------------------------------------------------- the frame
\* A frame indexed by employee: the Role, Capacity and 'Current Hours to
\* Target' columns when present, the numeric program columns (progs), and the
\* names of the remaining non-numeric columns (other).
Frame(idx, hasRole, role, hasCap, cap, hasUtil, util, progs, hours, other) ==
  [index |-> idx,
   hasRole |-> hasRole, role |-> [e \in idx |-> IF hasRole THEN role[e] ELSE ""],
   hasCap |-> hasCap, cap |-> [e \in idx |-> IF hasCap THEN cap[e] ELSE 0],
   hasUtil |-> hasUtil, util |-> [e \in idx |-> IF hasUtil THEN util[e] ELSE 0],
   progs |-> progs, hours |-> [e \in idx |-> [p \in progs |-> hours[e][p]]],
   other |-> other]

\* pd.DataFrame()
EmptyDataFrame ==
  Frame({}, FALSE, <<>>, FALSE, <<>>, FALSE, <<>>, {}, <<>>, {})

Columns(t) ==
  (IF t.hasRole THEN {"Role"} ELSE {}) \cup
  (IF t.hasCap THEN {"Capacity"} ELSE {}) \cup
  (IF t.hasUtil THEN {"Current Hours to Target"} ELSE {}) \cup
  t.progs \cup t.other

\* df.empty: an axis of length 0
IsEmpty(t) == t.index = {} \/ Columns(t) = {}

\* the numeric columns that are neither Capacity nor the utilization column
prog_cols(t) == t.progs

TotalHours(t, e) == SumOver(t.hours[e], prog_cols(t))

\* A recompute that writes the standard capacity whether or not the frame
\* already has a Capacity column.
recalculate_utilization_resets_capacity(t) ==
  IF IsEmpty(t) THEN t
  ELSE
    LET total == [e \in t.index |-> TotalHours(t, e)]
        withCap == [t EXCEPT !.hasCap = TRUE,
                             !.cap = [e \in t.index |-> STANDARD_CAPACITY]]
    IN  [withCap EXCEPT
           !.hasUtil = TRUE,
           !.util = [e \in t.index |->
                       RoundHalfEven(total[e] * 100, withCap.cap[e])]]

\* A recompute whose exclude list lacks 'Capacity': a Capacity column that
\* is present is summed with the program hours.
recalculate_utilization_sums_capacity(t) ==
  IF IsEmpty(t) THEN t
  ELSE
    LET total == [e \in t.index |->
                    TotalHours(t, e) + (IF t.hasCap THEN t.cap[e] ELSE 0)]
        withCap == IF t.hasCap THEN t
                   ELSE [t EXCEPT !.hasCap = TRUE,
                                  !.cap = [e \in t.index |-> STANDARD_CAPACITY]]
    IN  [withCap EXCEPT
           !.hasUtil = TRUE,
           !.util = [e \in t.index |->
                       IF withCap.cap[e] > 0
                       THEN RoundHalfEven(total[e] * 100, withCap.cap[e])
                       ELSE 0]]

recalculate_utilization(t) ==
  IF IsEmpty(t) THEN t
  ELSE
    LET total == [e \in t.index |-> TotalHours(t, e)]
        withCap == IF t.hasCap THEN t
                   ELSE [t EXCEPT !.hasCap = TRUE,
                                  !.cap = [e \in t.index |-> STANDARD_CAPACITY]]
    IN  [withCap EXCEPT
           !.hasUtil = TRUE,
           !.util = [e \in t.index |->
                       IF withCap.cap[e] > 0
                       THEN RoundHalfEven(total[e] * 100, withCap.cap[e])
                       ELSE 0]]

\* ------------------------------------------------------------ the margin
\* RATE_CARD in the order of the dict (app.py and utils.py)
RATE_CARD ==
  << <<"ACP", 37>>, <<"CP", 54>>, <<"CE", 89>>, <<"SCE", 119>>,
     <<"R+I I", 44>>, <<"R+I II", 56>>, <<"R+I III", 89>>, <<"R+I IV", 135>> >>
utils_RATE_CARD ==
  << <<"ACP", 37>>, <<"CP", 54>>, <<"SCP", 54>>, <<"LCP", 89>>,
     <<"ACE", 89>>, <<"CE", 89>>, <<"SCE", 119>>,
     <<"R+I I", 44>>, <<"R+I II", 56>>, <<"R+I III", 89>>, <<"R+I IV", 135>> >>

\* str(role).strip().upper() and the rate-card keys that are substrings of
\* the result, for the role spellings the model uses
UpperTable ==
  ("CP" :> "CP" @@ "ce " :> "CE" @@ "Senior CE" :> "SENIOR CE" @@ "CE" :> "CE" @@
   "CSM" :> "CSM" @@ "SCP" :> "SCP" @@ "R+I I" :> "R+I I")
KeysIn ==
  ("CP" :> {"CP"} @@ "CE" :> {"CE"} @@ "SENIOR CE" :> {"CE"} @@ "CSM" :> {} @@
   "SCP" :> {"CP", "SCP"} @@ "R+I I" :> {"R+I I"})

get_rate(role_name, card) ==
  IF role_name = "" THEN 0
  ELSE
    LET role_clean == UpperTable[role_name]
        exact == {k \in DOMAIN card : card[k][1] = role_clean}
        part == {k \in DOMAIN card : card[k][1] \in KeysIn[role_clean]}
    IN  IF exact # {} THEN card[CHOOSE k \in exact : TRUE][2]
        ELSE IF part # {} THEN card[CHOOSE k \in part : \A x \in part : k <= x][2]
        ELSE 0

\* A float that is the quotient of two integers, kept as the pair.
Ratio(n, d) == [num |-> n, den |-> d]
Minus(a, b) ==
  IF a.den = b.den THEN Ratio(a.num - b.num, a.den)
  ELSE Ratio(a.num * b.den - b.num * a.den, a.den * b.den)

\* A margin without the -100 sentinel.
margin_pct_no_sentinel(mrr, cost) ==
  IF mrr > 0 THEN Ratio((mrr - cost) * 100, mrr) ELSE Ratio(0, 1)

\* ((mrr - cost) / mrr) * 100, or the sentinel -100.0 / 0.0
margin_pct(mrr, cost) ==
  IF mrr > 0 THEN Ratio((mrr - cost) * 100, mrr)
  ELSE IF cost > 0 THEN Ratio(0 - 100, 1) ELSE Ratio(0, 1)

\* program_mrr_dict.get(prog, 0)
MrrOf(m, p) == IF p \in DOMAIN m THEN m[p] ELSE 0

\* the sum over the rows of hours * rate
ProgramCost(t, p, card) ==
  SumOver([e \in t.index |-> t.hours[e][p] * get_rate(t.role[e], card)], t.index)

\* app.py calculate_margin
calculate_margin(t, program_mrr_dict) ==
  IF IsEmpty(t) THEN <<>>
  ELSE [p \in prog_cols(t) |->
          [mrr |-> MrrOf(program_mrr_dict, p),
           cost |-> ProgramCost(t, p, RATE_CARD),
           margin_pct |-> margin_pct(MrrOf(program_mrr_dict, p),
                                     ProgramCost(t, p, RATE_CARD))]]

\* utils.py calculate_margin: the future cost takes the hours of the
\* future map for the pairs it has
FutureHours(t, e, p, future_map) ==
  IF <<e, p>> \in DOMAIN future_map THEN future_map[<<e, p>>].future_hours
  ELSE t.hours[e][p]

utils_calculate_margin(t, program_mrr_dict, future_map) ==
  IF IsEmpty(t) THEN <<>>
  ELSE [p \in prog_cols(t) |->
          LET mrr == MrrOf(program_mrr_dict, p)
              cur == ProgramCost(t, p, utils_RATE_CARD)
              fut == SumOver([e \in t.index |->
                                FutureHours(t, e, p, future_map) *
                                get_rate(t.role[e], utils_RATE_CARD)], t.index)
          IN  [mrr |-> mrr,
               margin_pct |-> margin_pct(mrr, cur),
               margin_fut |-> margin_pct(mrr, fut),
               delta |-> Minus(margin_pct(mrr, fut), margin_pct(mrr, cur))]]

\* ------------------------------------------------------- session objects
\* The session while a handler runs: the heap of frames, the reference held
\* by st.session_state.df and the references held by the undo stack.
Session == [heap |-> heap, df |-> df, stack |-> undo_stack]

LiveRefs(st) == {st.df} \cup {st.stack[i] : i \in DOMAIN st.stack}

FreshRef(st) ==
  CHOOSE c \in ObjIds \ LiveRefs(st) :
    \A o \in ObjIds \ LiveRefs(st) : c <= o

DfOf(st) == st.heap[st.df]

\* a statement that writes the current frame in place
WriteDf(st, t) == [st EXCEPT !.heap[st.df] = t]

\* a statement that binds st.session_state.df to a newly built frame
BindDf(st, t) ==
  LET c == FreshRef(st)
  IN  [st EXCEPT !.heap[c] = t, !.df = c]

\* A push that appends the current frame itself instead of a copy of it.
push_to_history_no_copy(st) ==
  LET s1 == Append(st.stack, st.df)
  IN  [st EXCEPT !.stack = IF Len(s1) > HistoryLimit THEN Tail(s1) ELSE s1]

\* A push that drops the newest snapshot on overflow.
push_to_history_drops_newest(st) ==
  LET c == FreshRef(st)
      s1 == Append(st.stack, c)
  IN  [st EXCEPT !.heap[c] = DfOf(st),
                 !.stack = IF Len(s1) > HistoryLimit
                           THEN SubSeq(s1, 1, Len(s1) - 1) ELSE s1]

push_to_history(st) ==
  LET c == FreshRef(st)
      s1 == Append(st.stack, c)
  IN  [st EXCEPT !.heap[c] = DfOf(st),
                 !.stack = IF Len(s1) > HistoryLimit THEN Tail(s1) ELSE s1]

\* An undo that takes the oldest snapshot instead of the newest.
undo_last_change_oldest_first(st) ==
  IF st.stack # <<>>
  THEN [st EXCEPT !.df = st.stack[1], !.stack = Tail(st.stack)]
  ELSE st

\* An undo that pops without checking that the stack holds a snapshot.
undo_last_change_unguarded(st) ==
  IF st.stack # <<>>
  THEN [st EXCEPT !.df = st.stack[Len(st.stack)],
                  !.stack = SubSeq(st.stack, 1, Len(st.stack) - 1)]
  ELSE BindDf(st, EmptyDataFrame)

undo_last_change(st) ==
  IF st.stack # <<>>
  THEN [st EXCEPT !.df = st.stack[Len(st.stack)],
                  !.stack = SubSeq(st.stack, 1, Len(st.stack) - 1)]
  ELSE st

\* Object identity carries no meaning beyond aliasing: the frames that are
\* still referenced are renumbered in the order current frame, oldest
\* snapshot, ..., newest snapshot, and the others are collected.
RECURSIVE Renumber(_, _, _)
Renumber(refs, i, map) ==
  IF i > Len(refs) THEN map
  ELSE IF refs[i] \in DOMAIN map THEN Renumber(refs, i + 1, map)
  ELSE Renumber(refs, i + 1, map @@ (refs[i] :> Cardinality(DOMAIN map)))

CommitValue(s, map) ==
  /\ heap' = [o \in ObjIds |->
                IF \E r \in DOMAIN map : map[r] = o
                THEN s.heap[CHOOSE r \in DOMAIN map : map[r] = o]
                ELSE NoObj]
  /\ df' = map[s.df]
  /\ undo_stack' = [i \in DOMAIN s.stack |-> map[s.stack[i]]]

\* the end of a handler run: the session as the next run finds it
Commit(st) ==
  \E s \in {st} :
    \E map \in {Renumber(<<s.df>> \o s.stack, 1, <<>>)} : CommitValue(s, map)

CurTable == heap[df]
StackTables == [i \in DOMAIN undo_stack |-> heap[undo_stack[i]]]


\* ------------------------------------------------------------ CSV ingestion
\* A CSV file is text: a header line and rows of text cells ("" is an empty
\* cell).  The tables below give strip(), lower(), the numeric parse and the
\* removal of '$' and ',' on the header and cell spellings the files of the
\* model use; a spelling outside a table is returned as it is (it has no
\* surrounding blank, no upper-case letter, no '$' or ',') or does not parse.
StripTable == (" Hours " :> "Hours" @@ "Employee " :> "Employee")
LowerTable ==
  ("Employee" :> "employee" @@ "CT Name" :> "ct name" @@
   "Employee Name" :> "employee name" @@ "Program Name" :> "program name" @@
   "Program" :> "program" @@ "Client" :> "client" @@
   "Account Role" :> "account role" @@ "Role" :> "role" @@
   "Allocated Monthly Hours" :> "allocated monthly hours" @@
   "Allocated Hours" :> "allocated hours" @@ "Hours" :> "hours" @@
   "HOURS" :> "hours" @@ "Allocated Hrs" :> "allocated hrs" @@
   "Program MRR" :> "program mrr" @@ "MRR" :> "mrr" @@ "Revenue" :> "revenue" @@
   "Capacity" :> "capacity" @@ "Notes" :> "notes" @@ "Acme" :> "acme" @@
   "Globex" :> "globex" @@
   "Current Hours to Target" :> "current hours to target" @@
   "Assignment End Date" :> "assignment end date" @@ "End Date" :> "end date" @@
   "Future Hours Date" :> "future hours date" @@ "Change Date" :> "change date" @@
   "Effective Date" :> "effective date" @@
   "Future Allocated Hours" :> "future allocated hours" @@
   "Future Hours" :> "future hours" @@ "Hrs" :> "hrs")
NumberOf ==
  ("0" :> 0 @@ "19" :> 19 @@ "20" :> 20 @@ "40" :> 40 @@ "57" :> 57 @@
   "60" :> 60 @@ "76" :> 76 @@ "152" :> 152 @@ "-19" :> (0 - 19) @@
   "5000" :> 5000 @@ "9000" :> 9000 @@ "15000" :> 15000)
MoneyTable == ("$15,000" :> "15000" @@ "$9,000" :> "9000")
\* the headers that contain the substring 'Allocated' (case-sensitive)
HasAllocated ==
  {"Allocated Monthly Hours", "Allocated Hours", "Allocated Hrs"}

Strip(s) == IF s \in DOMAIN StripTable THEN StripTable[s] ELSE s
Lower(s) == IF s \in DOMAIN LowerTable THEN LowerTable[s] ELSE s
StripMoney(s) == IF s \in DOMAIN MoneyTable THEN MoneyTable[s] ELSE s

Range(q) == {q[i] : i \in DOMAIN q}
NoColumn == "<None>"

\* A numeric cell: a number or NaN.
Num(n) == [nan |-> FALSE, v |-> n]
NaN == [nan |-> TRUE, v |-> 0]
\* pd.to_numeric(text, errors='coerce')
to_numeric(s) == IF s \in DOMAIN NumberOf THEN Num(NumberOf[s]) ELSE NaN
fillna(x, d) == IF x.nan THEN Num(d) ELSE x

\* pd.read_csv followed by df.columns.str.strip(): a column whose cells all
\* parse (or are empty) is numeric, any other column keeps its text.
read_csv(file) ==
  LET cols == [i \in DOMAIN file.columns |-> Strip(file.columns[i])]
      RawOf(c) == file.columns[CHOOSE i \in DOMAIN cols : cols[i] = c]
      IsNum(c) ==
        \A i \in DOMAIN file.rows :
          file.rows[i][RawOf(c)] = "" \/ file.rows[i][RawOf(c)] \in DOMAIN NumberOf
      num == {c \in Range(cols) : IsNum(c)}
  IN  [columns |-> cols,
       num |-> num,
       rows |-> [i \in DOMAIN file.rows |->
                   [c \in Range(cols) |->
                      IF c \in num THEN to_numeric(file.rows[i][RawOf(c)])
                      ELSE file.rows[i][RawOf(c)]]]]

EmptyParsed == [columns |-> <<>>, num |-> {}, rows |-> <<>>]
EmptyMap == [p \in {} |-> 0]

\* The first candidate, in the order given, that equals a header after
\* strip().lower() on both sides; the header as the frame spells it.
RECURSIVE find_column(_, _)
find_column(pf, candidates) ==
  IF candidates = <<>> THEN NoColumn
  ELSE
    LET c_clean == Lower(Strip(Head(candidates)))
        hits == {i \in DOMAIN pf.columns : Lower(Strip(pf.columns[i])) = c_clean}
    IN  IF hits # {}
        THEN pf.columns[CHOOSE i \in hits : \A j \in hits : i <= j]
        ELSE find_column(pf, Tail(candidates))

RECURSIVE SelectCols(_, _)
SelectCols(q, keep) ==
  IF q = <<>> THEN <<>>
  ELSE IF keep[Head(q)] THEN <<Head(q)>> \o SelectCols(Tail(q), keep)
       ELSE SelectCols(Tail(q), keep)

\* df.drop(columns=[c])
DropColumn(pf, c) ==
  [columns |-> SelectCols(pf.columns, [x \in Range(pf.columns) |-> x # c]),
   num |-> pf.num \ {c},
   rows |-> [i \in DOMAIN pf.rows |->
               [x \in Range(pf.columns) \ {c} |-> pf.rows[i][x]]]]

\* df.rename(columns={old: new})
RenameColumn(pf, old, new) ==
  LET Back(x) == IF x = new THEN old ELSE x
      cols == [i \in DOMAIN pf.columns |->
                 IF pf.columns[i] = old THEN new ELSE pf.columns[i]]
  IN  [columns |-> cols,
       num |-> {IF x = old THEN new ELSE x : x \in pf.num},
       rows |-> [i \in DOMAIN pf.rows |->
                   [x \in Range(cols) |-> pf.rows[i][Back(x)]]]]

\* the cells of column c as numbers: the column coerced with to_numeric
\* (after '$' and ',' are removed when strip is set) and NaN filled with 0
Coerced(pf, c, strip, i) ==
  IF c \in pf.num THEN fillna(pf.rows[i][c], 0).v
  ELSE fillna(to_numeric(IF strip THEN StripMoney(pf.rows[i][c])
                         ELSE pf.rows[i][c]), 0).v

RECURSIVE MaxOf(_)
MaxOf(S) ==
  LET x == CHOOSE y \in S : TRUE
  IN  IF S = {x} THEN x
      ELSE LET m == MaxOf(S \ {x}) IN IF x > m THEN x ELSE m

RECURSIVE SetToSeq(_)
SetToSeq(S) ==
  IF S = {} THEN <<>>
  ELSE LET x == CHOOSE y \in S : TRUE IN <<x>> \o SetToSeq(S \ {x})

\* the keys of a text column: its values, NaN (the empty cell) left out
Keys(pf, c) == {pf.rows[i][c] : i \in DOMAIN pf.rows} \ {""}

\* df.groupby(prog)[mrr].max().to_dict() on the coerced revenue column
RevenueMap(pf, mrr_col, prog_col) ==
  [g \in Keys(pf, prog_col) |->
     MaxOf({Coerced(pf, mrr_col, TRUE, i) :
              i \in {j \in DOMAIN pf.rows : pf.rows[j][prog_col] = g}})]

\* df.pivot_table(index=ct, columns=prog, values=hour, aggfunc='sum')
\* .fillna(0), joined to the first role of each employee when there is a
\* role column, with the identity and role columns renamed.  The pivot
\* leaves out the rows whose employee or program cell is empty; the roles
\* keep every employee, and the left join gives the ones the pivot has no
\* row for NaN in every program column (the fillna came before the join).
PivotCell(pf, ct_col, prog_col, hour_col, e, p) ==
  LET match == {i \in DOMAIN pf.rows :
                  pf.rows[i][ct_col] = e /\ pf.rows[i][prog_col] = p}
      h == [i \in match |-> Coerced(pf, hour_col, FALSE, i)]
  IN  SumOver(h, match)

FirstRole(pf, ct_col, role_col, e) ==
  LET mine == {i \in DOMAIN pf.rows : pf.rows[i][ct_col] = e}
  IN  pf.rows[CHOOSE i \in mine : \A j \in mine : i <= j][role_col]

Pivot(pf, ct_col, prog_col, role_col, hour_col) ==
  LET paired == {i \in DOMAIN pf.rows :
                   pf.rows[i][ct_col] # "" /\ pf.rows[i][prog_col] # ""}
      pEmps == {pf.rows[i][ct_col] : i \in paired}
      progs == {pf.rows[i][prog_col] : i \in paired}
      emps == IF role_col # NoColumn THEN Keys(pf, ct_col) ELSE pEmps
      empSeq == SetToSeq(emps)
      cols == <<"Employee">> \o
              (IF role_col # NoColumn THEN <<"Role">> ELSE <<>>) \o SetToSeq(progs)
  IN  [columns |-> cols,
       num |-> progs,
       rows |-> [k \in DOMAIN empSeq |->
                   [c \in Range(cols) |->
                      IF c = "Employee" THEN empSeq[k]
                      ELSE IF c = "Role" /\ role_col # NoColumn
                           THEN FirstRole(pf, ct_col, role_col, empSeq[k])
                      ELSE IF empSeq[k] \in pEmps
                           THEN Num(PivotCell(pf, ct_col, prog_col, hour_col, empSeq[k], c))
                      ELSE NaN]]]

hour_column(pf) ==
  LET exact == find_column(pf, <<"Allocated Monthly Hours", "Allocated Hours", "Hours">>)
      found == {i \in DOMAIN pf.columns : pf.columns[i] \in HasAllocated}
  IN  IF exact # NoColumn THEN exact
      ELSE IF found # {}
           THEN pf.columns[CHOOSE i \in found : \A j \in found : i <= j]
           ELSE NoColumn

process_uploaded_file(file) ==
  IF ~file.readable THEN [df |-> EmptyParsed, mrr |-> EmptyMap]
  ELSE
    LET df0 == read_csv(file)
        mrr_col == find_column(df0, <<"Program MRR", "MRR", "Revenue">>)
        prog_col_raw == find_column(df0, <<"Program Name", "Program", "Client">>)
        hasMrr == mrr_col # NoColumn /\ prog_col_raw # NoColumn
        new_mrr_map == IF hasMrr THEN RevenueMap(df0, mrr_col, prog_col_raw)
                       ELSE EmptyMap
        df1 == IF hasMrr THEN DropColumn(df0, mrr_col) ELSE df0
        ct_col == find_column(df1, <<"CT Name", "Employee Name", "Employee">>)
        prog_col == find_column(df1, <<"Program Name", "Program", "Client">>)
        role_col == find_column(df1, <<"Account Role", "Role">>)
        hour_col == hour_column(df1)
    IN  IF ct_col # NoColumn /\ prog_col # NoColumn /\ hour_col # NoColumn
        THEN [df |-> Pivot(df1, ct_col, prog_col, role_col, hour_col),
              mrr |-> new_mrr_map]
        ELSE IF ct_col # NoColumn /\ ct_col # "Employee"
        THEN [df |-> RenameColumn(df1, ct_col, "Employee"), mrr |-> new_mrr_map]
        ELSE [df |-> df1, mrr |-> new_mrr_map]


\* ------------------------------------------- utils.py: the future state
\* The dates the files of the model spell, as day numbers (2026-01-01 is
\* day 0); any other spelling does not parse.
DayOf ==
  ("2025-12-22" :> (0 - 10) @@ "2026-01-31" :> 30 @@ "2026-02-02" :> 32 @@
   "2026-03-02" :> 60 @@ "2026-03-03" :> 61 @@ "2026-03-04" :> 62)
NaT == [nat |-> TRUE, day |-> 0]
\* pd.to_datetime(text, errors='coerce'): midnight of the day, or NaT
to_datetime(s) == IF s \in DOMAIN DayOf THEN [nat |-> FALSE, day |-> DayOf[s]] ELSE NaT

\* the cell of a date column after clean_dates (an all-empty column is read
\* as a numeric column of NaN)
DateCell(pf, c, i) ==
  IF c = NoColumn \/ c \in pf.num THEN NaT ELSE to_datetime(pf.rows[i][c])

\* (date - today).days with today = pd.Timestamp.now(): the difference in
\* whole days rounded down, one less than the difference of the calendar
\* days once the time of day is past midnight
days(date, today) == date.day - today.day - (IF today.late THEN 1 ELSE 0)

\* utils.process_uploaded_file up to the pivot: the columns it resolves
utils_columns(file) ==
  LET df0 == read_csv(file)
      end_date_col == find_column(df0, <<"Assignment End Date", "End Date">>)
      future_date_col ==
        find_column(df0, <<"Future Hours Date", "Change Date", "Effective Date">>)
      mrr_col == find_column(df0, <<"Program MRR", "MRR", "Revenue">>)
      prog_col_raw == find_column(df0, <<"Program Name", "Program", "Client">>)
      hasMrr == mrr_col # NoColumn /\ prog_col_raw # NoColumn
      df1 == IF hasMrr THEN DropColumn(df0, mrr_col) ELSE df0
      ct_col == find_column(df1, <<"CT Name", "Employee Name", "Employee">>)
      prog_col == find_column(df1, <<"Program Name", "Program", "Client">>)
      hour_col ==
        find_column(df1, <<"Allocated Monthly Hours", "Allocated Hours", "Hours">>)
  IN  [df |-> df1,
       new_mrr_map |-> IF hasMrr THEN RevenueMap(df0, mrr_col, prog_col_raw)
                       ELSE EmptyMap,
       end_date_col |-> end_date_col, future_date_col |-> future_date_col,
       ct_col |-> ct_col, prog_col |-> prog_col,
       role_col |-> find_column(df1, <<"Account Role", "Role">>),
       hour_col |-> hour_col,
       future_hours_col |->
         find_column(df1, <<"Future Allocated Hours", "Future Hours">>),
       pivots |-> ct_col # NoColumn /\ prog_col # NoColumn /\ hour_col # NoColumn]

Stable == [kind |-> "Stable", direction |-> "", target |-> 0, date |-> NaT]
RollingOff(d) == [kind |-> "Rolling off", direction |-> "", target |-> 0, date |-> d]
Ramping(dir, h, d) == [kind |-> "Ramping", direction |-> dir, target |-> h, date |-> d]

\* An entry that looks at the change date before the end date.
future_entry_ramp_first(c, i, today) ==
  LET current_hrs == Coerced(c.df, c.hour_col, FALSE, i)
      fut_hrs == IF c.future_hours_col # NoColumn
                 THEN Coerced(c.df, c.future_hours_col, FALSE, i)
                 ELSE current_hrs
      end_date == DateCell(c.df, c.end_date_col, i)
      change_date == DateCell(c.df, c.future_date_col, i)
  IN  IF ~change_date.nat /\ days(change_date, today) <= 60 /\ fut_hrs # current_hrs
      THEN [future_hours |-> fut_hrs,
            status |-> Ramping(IF fut_hrs > current_hrs THEN "Increasing"
                               ELSE "Decreasing", fut_hrs, change_date)]
      ELSE IF ~end_date.nat /\ days(end_date, today) <= 30
      THEN [future_hours |-> 0, status |-> RollingOff(end_date)]
      ELSE [future_hours |-> current_hrs, status |-> Stable]

\* the body of the loop over the rows: the entry row i writes
future_entry(c, i, today) ==
  LET current_hrs == Coerced(c.df, c.hour_col, FALSE, i)
      fut_hrs == IF c.future_hours_col # NoColumn
                 THEN Coerced(c.df, c.future_hours_col, FALSE, i)
                 ELSE current_hrs
      end_date == DateCell(c.df, c.end_date_col, i)
      change_date == DateCell(c.df, c.future_date_col, i)
  IN  IF ~end_date.nat /\ days(end_date, today) <= 30
      THEN [future_hours |-> 0, status |-> RollingOff(end_date)]
      ELSE IF ~change_date.nat /\ days(change_date, today) <= 60
              /\ fut_hrs # current_hrs
      THEN [future_hours |-> fut_hrs,
            status |-> Ramping(IF fut_hrs > current_hrs THEN "Increasing"
                               ELSE "Decreasing", fut_hrs, change_date)]
      ELSE [future_hours |-> current_hrs, status |-> Stable]

\* key = (emp, prog)
future_key(c, i) == <<c.df.rows[i][c.ct_col], c.df.rows[i][c.prog_col]>>

EmptyFuture == [k \in {} |-> Stable]

\* what utils.process_uploaded_file returns once the rows are done, and what
\* it returns when it does not pivot
utils_pivoted(c, future_state_map) ==
  [df |-> Pivot(c.df, c.ct_col, c.prog_col, c.role_col, c.hour_col),
   mrr |-> c.new_mrr_map, future |-> future_state_map]

utils_unpivoted(c) ==
  [df |-> IF c.ct_col # NoColumn /\ c.ct_col # "Employee"
          THEN RenameColumn(c.df, c.ct_col, "Employee") ELSE c.df,
   mrr |-> c.new_mrr_map, future |-> EmptyFuture]

utils_failed == [df |-> EmptyParsed, mrr |-> EmptyMap, future |-> EmptyFuture]

\* ------------------------------------------------- from a parsed frame
\* df.set_index('Employee') when the column exists (the default RangeIndex
\* otherwise), read as a frame indexed by employee.
RowLabel(i) == <<"0", "1", "2", "3">>[i]
Fixed == {"Employee", "Role", "Capacity", "Current Hours to Target"}

IndexLabel(pf, i) ==
  IF "Employee" \in Range(pf.columns) THEN pf.rows[i]["Employee"] ELSE RowLabel(i)

set_index(pf) ==
  LET cols == Range(pf.columns)
      idx == {IndexLabel(pf, i) : i \in DOMAIN pf.rows}
      RowOf(e) == CHOOSE i \in DOMAIN pf.rows : IndexLabel(pf, i) = e
      progs == pf.num \ Fixed
  IN  Frame(idx,
            "Role" \in cols, [e \in idx |-> pf.rows[RowOf(e)]["Role"]],
            "Capacity" \in cols, [e \in idx |-> pf.rows[RowOf(e)]["Capacity"].v],
            "Current Hours to Target" \in cols, [e \in idx |-> 0],
            progs, [e \in idx |-> [p \in progs |-> pf.rows[RowOf(e)][p].v]],
            cols \ (pf.num \cup Fixed))

\* x['Capacity'] > 0 on a text Capacity column raises TypeError
RecomputeRaises(pf) ==
  pf.rows # <<>> /\ "Capacity" \in Range(pf.columns) /\ "Capacity" \notin pf.num

\* new_df.empty
ParsedEmpty(pf) == pf.rows = <<>> \/ pf.columns = <<>>

\* --------------------------------------------------------------- the files
File(name, readable, columns, cells) ==
  [name |-> name, readable |-> readable, columns |-> columns,
   rows |-> [i \in DOMAIN cells |->
               [c \in Range(columns) |->
                  cells[i][CHOOSE k \in DOMAIN columns : columns[k] = c]]]]

UnreadableFile == File("bad.csv", FALSE, <<>>, <<>>)

\* long format: a duplicated pair, an unparsable and a negative hour cell,
\* revenue written with '$' and ','
LongFile ==
  File("long.csv", TRUE,
       <<"CT Name", "Program", "Account Role", " Hours ", "MRR">>,
       << <<"Ada", "Acme", "CP", "57", "$15,000">>,
          <<"Ada", "Acme", "CP", "abc", "$9,000">>,
          <<"Noah Bisel", "Google", "CE", "-19", "5000">> >>)

\* wide format: the row of the specification's wide-ingestion scenario and a
\* part-time employee whose capacity is not the standard one
WideFile ==
  File("wide.csv", TRUE,
       <<"Employee", "Role", "Capacity", "Acme", "Globex">>,
       << <<"Alice", "CP", "152", "40", "60">>,
          <<"Bob", "CE", "76", "19", "0">> >>)

UploadFiles == {UnreadableFile, LongFile, WideFile}

\* staffing_db.csv when it exists: one employee, no Capacity column
DefaultFile ==
  File("staffing_db.csv", TRUE,
       <<"Employee", "Role", "Acme">>,
       << <<"Ada", "CP", "19">> >>)

\* --------------------------------------------------------- session start
MockEmployees ==
  {"Mitch Ursick", "Noah Bisel", "Kevin Steger", "Nicki Williams", "R+I I (Placeholder)"}
MockRole ==
  ("Mitch Ursick" :> "CSM" @@ "Noah Bisel" :> "CE" @@ "Kevin Steger" :> "CP" @@
   "Nicki Williams" :> "CE" @@ "R+I I (Placeholder)" :> "R+I I")
MockHours ==
  ("Mitch Ursick" :> ("Accenture" :> 10 @@ "Google" :> 60) @@
   "Noah Bisel" :> ("Accenture" :> 80 @@ "Google" :> 20) @@
   "Kevin Steger" :> ("Accenture" :> 20 @@ "Google" :> 60) @@
   "Nicki Williams" :> ("Accenture" :> 0 @@ "Google" :> 15) @@
   "R+I I (Placeholder)" :> ("Accenture" :> 0 @@ "Google" :> 40))
MockData ==
  Frame(MockEmployees, TRUE, MockRole,
        TRUE, [e \in MockEmployees |-> 152],
        FALSE, <<>>, {"Accenture", "Google"}, MockHours, {})
MockMrr == ("Accenture" :> 15000 @@ "Google" :> 25000)

\* The frame and the registry the script builds when the session holds no
\* 'df': from the default file when it exists (the empty frame when reading
\* it fails), from the mock data otherwise.
DefaultLoad(file) ==
  IF ~file.readable THEN [df |-> EmptyDataFrame, mrr |-> EmptyMap]
  ELSE
    LET df0 == read_csv(file)
        mrr_col == find_column(df0, <<"Program MRR", "MRR">>)
        prog_col == find_column(df0, <<"Program Name", "Program">>)
        hasMrr == mrr_col # NoColumn /\ prog_col # NoColumn
        df1 == IF hasMrr THEN DropColumn(df0, mrr_col) ELSE df0
    IN  [df |-> IF RecomputeRaises(df1) THEN EmptyDataFrame
                ELSE recalculate_utilization(set_index(df1)),
         mrr |-> IF hasMrr THEN RevenueMap(df0, mrr_col, prog_col) ELSE EmptyMap]

SessionStarts ==
  {[df |-> recalculate_utilization(MockData), mrr |-> MockMrr],
   DefaultLoad(DefaultFile),
   DefaultLoad(UnreadableFile)}

NoOp == [op |-> "start", emp |-> "", prog |-> "", val |-> 0, ok |-> FALSE,
         pre |-> EmptyDataFrame, preLen |-> 0, preMrr |-> EmptyMap]

InitWith(starts, b) ==
  /\ \E s \in starts :
       /\ heap = [i \in ObjIds |-> IF i = 0 THEN s.df ELSE NoObj]
       /\ program_mrr = s.mrr
       /\ run = [tail |-> <<s.df>>, n |-> 0, k |-> 0]
  /\ df = 0
  /\ undo_stack = <<>>
  /\ last_processed = Unset
  /\ budget = b
  /\ last = NoOp
  /\ prev = NoOp

NoArg == [none |-> TRUE]

Init == InitWith(SessionStarts, MaxOps) /\ arg = NoArg /\ out = <<>>


\* ------------------------------------------------------------- bookkeeping
\* What the last handler run was and what it found: its name and inputs,
\* whether its guard let it act, and the frame, the stack height and the
\* registry it started from.  prev is the same for the run before it.
Note(op, emp, prog, val, ok) ==
  /\ last' = [op |-> op, emp |-> emp, prog |-> prog, val |-> val, ok |-> ok,
              pre |-> CurTable, preLen |-> Len(undo_stack), preMrr |-> program_mrr]
  /\ prev' = last

LastN(q, n) == IF Len(q) <= n THEN q ELSE SubSeq(q, Len(q) - n + 1, Len(q))

\* run.tail: the frames T(n-m) .. T(n) the current sequence of mutations took
\* the table through (m = min(n, HistoryLimit)); run.n: n, counted up to
\* HistoryLimit + 1; run.k: the undos since, counted up to HistoryLimit + 1.
\* A mutation that follows an undo, and anything that replaces the table
\* without a push, starts a new sequence at the table it finds.
RunMutation ==
  run' = [tail |-> LastN(Append(IF run.k = 0 THEN run.tail ELSE <<CurTable>>,
                                heap'[df']), HistoryLimit + 1),
          n |-> IF run.k = 0 THEN Min(run.n + 1, HistoryLimit + 1) ELSE 1,
          k |-> 0]
RunUndo == run' = [run EXCEPT !.k = Min(run.k + 1, HistoryLimit + 1)]
RunRestart == run' = [tail |-> <<heap'[df']>>, n |-> 0, k |-> 0]

Recompute(st) == WriteDf(st, recalculate_utilization(DfOf(st)))

\* --------------------------------------------------------------- handlers
\* Profile View auto-save: one edited Hours cell (min_value = 0) that
\* differs from the stored one.
SetCell(name, prog, h) ==
  /\ ~IsEmpty(CurTable)
  /\ name \in CurTable.index
  /\ prog \in prog_cols(CurTable)
  /\ h >= 0
  /\ h # CurTable.hours[name][prog]
  /\ LET s1 == push_to_history(Session)
         s2 == WriteDf(s1, [DfOf(s1) EXCEPT !.hours[name][prog] = h])
     IN  Commit(Recompute(s2))
  /\ UNCHANGED <<program_mrr, last_processed>>
  /\ Note("set_cell", name, prog, h, TRUE)
  /\ RunMutation

\* df.update(edited): the edited cell written in place
GridWrite(t, name, col, v) ==
  IF col = "Capacity" THEN [t EXCEPT !.cap[name] = v]
  ELSE IF col = "Current Hours to Target" THEN [t EXCEPT !.util[name] = v]
  ELSE [t EXCEPT !.hours[name][col] = v]

GridValue(t, name, col) ==
  IF col = "Capacity" THEN t.cap[name]
  ELSE IF col = "Current Hours to Target" THEN t.util[name]
  ELSE t.hours[name][col]

\* A grid save that skips the recompute.
GridSave_no_recompute(st, name, col, v) ==
  WriteDf(push_to_history(st), GridWrite(DfOf(push_to_history(st)), name, col, v))

GridSave(st, name, col, v) ==
  LET s1 == push_to_history(st)
  IN  Recompute(WriteDf(s1, GridWrite(DfOf(s1), name, col, v)))

\* Grid View: the editor returns a frame that differs from the shown one in
\* one cell.  The editor puts no lower bound on a program or Capacity cell;
\* it disables the utilization column, and the handler itself does not look
\* at which column changed.
GridEdit(name, col, v) ==
  /\ ~IsEmpty(CurTable)
  /\ name \in CurTable.index
  /\ col \in prog_cols(CurTable) \cup {"Capacity", "Current Hours to Target"}
  /\ v # GridValue(CurTable, name, col)
  /\ Commit(GridSave(Session, name, col, v))
  /\ UNCHANGED <<program_mrr, last_processed>>
  /\ Note("grid_edit", name, col, v, TRUE)
  /\ RunMutation

\* df.loc[n] = pd.Series(new_row): the row the frame's columns select from
\* {every column: 0, Role: r, Capacity: 152}
WithEmployee(t, n, r) ==
  Frame(t.index \cup {n},
        t.hasRole, [e \in t.index \cup {n} |-> IF e = n THEN r ELSE t.role[e]],
        t.hasCap, [e \in t.index \cup {n} |->
                     IF e = n THEN STANDARD_CAPACITY ELSE t.cap[e]],
        t.hasUtil, [e \in t.index \cup {n} |-> IF e = n THEN 0 ELSE t.util[e]],
        t.progs, [e \in t.index \cup {n} |->
                    IF e = n THEN [p \in t.progs |-> 0] ELSE t.hours[e]],
        t.other)

AddEmployeeGuard(t, n) == n # "" /\ n \notin t.index

\* Settings / People / Add.  On a frame without columns the row assignment
\* raises ValueError after the push.
AddEmployee(n, r) ==
  /\ IF AddEmployeeGuard(CurTable, n)
     THEN LET s1 == push_to_history(Session)
          IN  /\ IF Columns(CurTable) = {}
                 THEN Commit(s1) /\ RunRestart
                 ELSE /\ Commit(Recompute(WriteDf(s1, WithEmployee(DfOf(s1), n, r))))
                      /\ RunMutation
              /\ Note("add_employee", n, "", 0, Columns(CurTable) # {})
     ELSE /\ UNCHANGED <<heap, df, undo_stack, run>>
          /\ Note("add_employee", n, "", 0, FALSE)
  /\ UNCHANGED <<program_mrr, last_processed>>

\* df.drop(index=[e]): a new frame
WithoutEmployee(t, e) ==
  Frame(t.index \ {e}, t.hasRole, t.role, t.hasCap, t.cap, t.hasUtil, t.util,
        t.progs, t.hours, t.other)

\* Settings / People / Delete Employee
RemoveEmployee(e) ==
  /\ e \in CurTable.index
  /\ LET s1 == push_to_history(Session)
     IN  Commit(Recompute(BindDf(s1, WithoutEmployee(DfOf(s1), e))))
  /\ UNCHANGED <<program_mrr, last_processed>>
  /\ Note("remove_employee", e, "", 0, TRUE)
  /\ RunMutation

\* df[p] = 0
WithProgram(t, p) ==
  Frame(t.index, t.hasRole, t.role, t.hasCap, t.cap, t.hasUtil, t.util,
        t.progs \cup {p},
        [e \in t.index |-> [q \in t.progs \cup {p} |->
                              IF q = p THEN 0 ELSE t.hours[e][q]]],
        t.other)

\* df.drop(columns=[p]): a new frame
WithoutProgram(t, p) ==
  Frame(t.index, t.hasRole, t.role, t.hasCap, t.cap, t.hasUtil, t.util,
        t.progs \ {p}, t.hours, t.other)

\* An update that replaces the registry by the file's entries.
MapUpdate_replaces(m, n) == n

MapSet(m, k, v) == [x \in DOMAIN m \cup {k} |-> IF x = k THEN v ELSE m[x]]
MapDel(m, k) == [x \in DOMAIN m \ {k} |-> m[x]]
\* program_mrr.update(new_mrr)
MapUpdate(m, n) ==
  [x \in DOMAIN m \cup DOMAIN n |-> IF x \in DOMAIN n THEN n[x] ELSE m[x]]

\* An add that does not look for the name among the columns: the hours of an
\* existing program are overwritten with 0.
AddProgramGuard_missing(t, p) == p # ""

AddProgramGuard(t, p) == p # "" /\ p \notin Columns(t)

\* Settings / Programs / Add Program
AddProgram(p, mrr_input) ==
  IF AddProgramGuard(CurTable, p)
  THEN /\ LET s1 == push_to_history(Session)
          IN  Commit(Recompute(WriteDf(s1, WithProgram(DfOf(s1), p))))
       /\ program_mrr' = MapSet(program_mrr, p, mrr_input)
       /\ UNCHANGED last_processed
       /\ Note("add_program", "", p, mrr_input, TRUE)
       /\ RunMutation
  ELSE /\ UNCHANGED <<heap, df, undo_stack, run, program_mrr, last_processed>>
       /\ Note("add_program", "", p, mrr_input, FALSE)

\* A delete that leaves the registry entry of the program behind.
RegistryAfterDelete_keeps(m, p) == m

RegistryAfterDelete(m, p) == IF p \in DOMAIN m THEN MapDel(m, p) ELSE m

\* Settings / Programs / Delete Program: the choices are the program columns
\* the script computed from the frame (none when the frame is empty).
RemoveProgram(p) ==
  /\ ~IsEmpty(CurTable)
  /\ p \in prog_cols(CurTable)
  /\ LET s1 == push_to_history(Session)
     IN  Commit(Recompute(BindDf(s1, WithoutProgram(DfOf(s1), p))))
  /\ program_mrr' = RegistryAfterDelete(program_mrr, p)
  /\ UNCHANGED last_processed
  /\ Note("remove_program", "", p, 0, TRUE)
  /\ RunMutation

\* Editor / Undo: the button is disabled on an empty stack and
\* undo_last_change itself does nothing on one.
Undo ==
  /\ Commit(undo_last_change(Session))
  /\ UNCHANGED <<program_mrr, last_processed>>
  /\ Note("undo", "", "", 0, undo_stack # <<>>)
  /\ RunUndo

\* process_uploaded_file on each file of the model, computed once
Ingested ==
  (UnreadableFile.name :> process_uploaded_file(UnreadableFile)) @@
  (LongFile.name :> process_uploaded_file(LongFile)) @@
  (WideFile.name :> process_uploaded_file(WideFile))

\* An upload that pushes the table it replaces onto the undo stack.
UploadInstall_pushes(st, t) == BindDf(push_to_history(st), t)

\* st.session_state.df = new_df: the new frame is bound and the undo stack
\* is not touched
UploadInstall(st, t) == BindDf(st, t)

\* An upload handler that installs whatever frame the ingestion returned.
UploadAccepts_any(res) == TRUE

UploadAccepts(res) == ~ParsedEmpty(res.df)

\* Settings / Data Import: a file not processed yet.  An empty result
\* changes nothing; a recompute that raises leaves the session as it was.
Upload(file) ==
  /\ last_processed # file.name
  /\ LET res == Ingested[file.name]
     IN  IF UploadAccepts(res) /\ ~RecomputeRaises(res.df)
         THEN /\ Commit(UploadInstall(Session,
                                      recalculate_utilization(set_index(res.df))))
              /\ program_mrr' = MapUpdate(program_mrr, res.mrr)
              /\ last_processed' = file.name
              /\ Note("upload", file.name, "", 0, TRUE)
              /\ RunRestart
         ELSE /\ UNCHANGED <<heap, df, undo_stack, run, program_mrr, last_processed>>
              /\ Note("upload", file.name, "", 0, FALSE)

\* Settings / Reset to Default: st.session_state.clear() and the rerun's
\* session start.
Reset ==
  /\ \E s \in SessionStarts :
       /\ heap' = [i \in ObjIds |-> IF i = 0 THEN s.df ELSE NoObj]
       /\ program_mrr' = s.mrr
  /\ df' = 0
  /\ undo_stack' = <<>>
  /\ last_processed' = Unset
  /\ Note("reset", "", "", 0, TRUE)
  /\ RunRestart

\* ---------------------------------------------------------- specifications
Tick == budget > 0 /\ budget' = budget - 1 /\ UNCHANGED <<arg, out>>

EditEmployees == {"Noah Bisel", "Ada"}
EditPrograms == {"Google", "Acme"}
HourChoices == {0, 19}
GridInputs ==
  {<<"Google", 0 - 19>>, <<"Acme", 57>>, <<"Capacity", 0>>,
   <<"Current Hours to Target", 7>>}
NewNames == {"Ada", "Noah Bisel", ""}
NewRoles == {"CP"}
NewPrograms == {"Acme", "Google", ""}
MrrInputs == {0, 9000}

Next ==
  \/ \E n \in EditEmployees, p \in EditPrograms, h \in HourChoices :
       Tick /\ SetCell(n, p, h)
  \/ \E n \in EditEmployees, g \in GridInputs : Tick /\ GridEdit(n, g[1], g[2])
  \/ \E n \in NewNames, r \in NewRoles : Tick /\ AddEmployee(n, r)
  \/ \E e \in EditEmployees : Tick /\ RemoveEmployee(e)
  \/ \E p \in NewPrograms, m \in MrrInputs : Tick /\ AddProgram(p, m)
  \/ \E p \in EditPrograms : Tick /\ RemoveProgram(p)
  \/ Tick /\ Undo
  \/ \E f \in UploadFiles : Tick /\ Upload(f)
  \/ Tick /\ Reset

Spec == Init /\ [][Next]_vars


\* The undo stack at depth: the mock session, one cell edited back and forth
\* and undone, with no limit on the number of handler runs.
HistEmployee == "Noah Bisel"
HistProgram == "Google"
HistHours == {0, 19}
MockStart == [df |-> recalculate_utilization(MockData), mrr |-> MockMrr]

InitHist == InitWith({MockStart}, 0) /\ arg = NoArg /\ out = <<>>

NextHist ==
  \/ \E h \in HistHours :
       SetCell(HistEmployee, HistProgram, h) /\ UNCHANGED <<budget, arg, out>>
  \/ Undo /\ UNCHANGED <<budget, arg, out>>

\* The functions of the metrics and ingestion layers called on their own: the
\* session is the empty one and stays as it is.
NoSession == InitWith({[df |-> EmptyDataFrame, mrr |-> EmptyMap]}, 0)

\* recalculate_utilization called again on the frame it returned
TableIndexes == {{}, {"Ada"}, {"Ada", "Bo"}}
TablePrograms == {{}, {"Acme"}, {"Acme", "Google"}}
CapacityCells == {0, 76}
UtilizationCells == {0, 7}
HourCells == {0 - 19, 0, 57}
TableInputs ==
  UNION {UNION {{Frame(i, r, [e \in i |-> "CP"], hc, c, hu, u, p, h, {}) :
                   r \in BOOLEAN, hc \in BOOLEAN, c \in [i -> CapacityCells],
                   hu \in BOOLEAN, u \in [i -> UtilizationCells],
                   h \in [i -> [p -> HourCells]]} :
                p \in TablePrograms} :
         i \in TableIndexes}

InitRecompute == NoSession /\ arg \in TableInputs /\ out = <<>>

Recalculate ==
  /\ Len(out) < RecomputePasses
  /\ out' = Append(out, recalculate_utilization(IF out = <<>> THEN arg
                                                ELSE out[Len(out)]))
  /\ UNCHANGED <<session, arg>>

NextRecompute == Recalculate

SpecRecompute == InitRecompute /\ [][NextRecompute]_vars

SpecHist == InitHist /\ [][NextHist]_vars

\* process_uploaded_file (app.py and utils.py) called on a long-format file.
\* A row is <<employee, program, role, hours, end date, change date, future
\* hours>>; the header of the hours column, the role column and the three
\* future-state columns vary from file to file.
HourHeaders == {"Hours", "Allocated Hrs", "Hrs"}
HourTexts == {"19", "abc"}
EndDates == {"", "2025-12-22", "2026-01-31", "2026-02-02"}
ChangeDates == {"", "2026-03-02", "2026-03-03", "2026-03-04"}
FutureTexts == {"", "19", "57"}
FirstRows ==
  {<<"Ada", "Acme", "CP", h, e, c, f>> :
     h \in HourTexts, e \in EndDates, c \in ChangeDates, f \in FutureTexts}
\* a second assignment row of the same pair, an employee without a program,
\* an employee whose hours are all 0
MoreRows ==
  {<<"Ada", "Acme", "CP", "20", "", "", "">>,
   <<"Bo", "", "CE", "", "", "", "">>,
   <<"Bo", "Google", "CE", "0", "", "", "">>}

RECURSIVE RowTails(_)
RowTails(n) ==
  IF n = 0 THEN {<<>>}
  ELSE {<<>>} \cup {<<m>> \o t : m \in MoreRows, t \in RowTails(n - 1)}

RowSeqs == {<<r>> \o t : r \in FirstRows, t \in RowTails(MaxRows - 1)}

IngestColumns(h, withRole, withFuture) ==
  <<"CT Name", "Program">> \o (IF withRole THEN <<"Account Role">> ELSE <<>>) \o
  <<h>> \o
  (IF withFuture THEN <<"End Date", "Change Date", "Future Hours">> ELSE <<>>)

IngestCells(r, withRole, withFuture) ==
  <<r[1], r[2]>> \o (IF withRole THEN <<r[3]>> ELSE <<>>) \o <<r[4]>> \o
  (IF withFuture THEN <<r[5], r[6], r[7]>> ELSE <<>>)

IngestFiles ==
  {File("upload.csv", TRUE, IngestColumns(h, wr, wf),
        [i \in DOMAIN q |-> IngestCells(q[i], wr, wf)]) :
     h \in HourHeaders, wr \in BOOLEAN, wf \in BOOLEAN, q \in RowSeqs}

\* the file and pd.Timestamp.now() at the call
IngestInputs ==
  {[file |-> f, today |-> [day |-> 0, late |-> l]] :
     f \in IngestFiles \cup {UnreadableFile}, l \in BOOLEAN}

NotCalled == [fn |-> "", pc |-> "start"]

InitIngest == NoSession /\ arg \in IngestInputs /\ out = NotCalled

\* app.py process_uploaded_file
IngestApp ==
  /\ out.pc = "start"
  /\ out' = [fn |-> "app", pc |-> "done", result |-> process_uploaded_file(arg.file)]
  /\ UNCHANGED <<session, arg>>

\* utils.py process_uploaded_file: up to the pivot, then row by row through
\* the future-state loop, then the return
UtilsParse ==
  /\ out.pc = "start"
  /\ out' = IF ~arg.file.readable
            THEN [fn |-> "utils", pc |-> "done", result |-> utils_failed]
            ELSE IF utils_columns(arg.file).pivots
            THEN [fn |-> "utils", pc |-> "rows", i |-> 1, future |-> EmptyFuture]
            ELSE [fn |-> "utils", pc |-> "done",
                  result |-> utils_unpivoted(utils_columns(arg.file))]
  /\ UNCHANGED <<session, arg>>

FutureRow ==
  /\ out.pc = "rows"
  /\ out.i <= Len(arg.file.rows)
  /\ \E c \in {utils_columns(arg.file)} :
       out' = [out EXCEPT
                 !.i = out.i + 1,
                 !.future = MapSet(out.future, future_key(c, out.i),
                                   future_entry(c, out.i, arg.today))]
  /\ UNCHANGED <<session, arg>>

UtilsReturn ==
  /\ out.pc = "rows"
  /\ out.i > Len(arg.file.rows)
  /\ out' = [fn |-> "utils", pc |-> "done",
             result |-> utils_pivoted(utils_columns(arg.file), out.future)]
  /\ UNCHANGED <<session, arg>>

NextIngest == IngestApp \/ UtilsParse \/ FutureRow \/ UtilsReturn

SpecIngest == InitIngest /\ [][NextIngest]_vars

\* calculate_margin (app.py and utils.py) called on a table, a revenue
\* registry and, for utils.py, a future map.
MarginRoles == {"", "CP", "ce ", "Senior CE", "CSM"}
MarginHours == {0 - 19, 0, 19}
MarginRevenue == {0, 9000}
MarginTables ==
  {EmptyDataFrame} \cup
  UNION {{Frame({"Ada"} \cup bo, TRUE, [e \in {"Ada"} \cup bo |-> IF e = "Ada" THEN r ELSE "CE"],
                TRUE, [e \in {"Ada"} \cup bo |-> STANDARD_CAPACITY],
                FALSE, <<>>, p, h, {}) :
            r \in MarginRoles, h \in [{"Ada"} \cup bo -> [p -> MarginHours]]} :
         <<bo, p>> \in {{}, {"Bo"}} \X {{"Acme"}, {"Acme", "Google"}}}
MarginRegistries ==
  UNION {[d -> MarginRevenue] : d \in SUBSET {"Acme", "Google"}}
MarginFutures ==
  {EmptyFuture, (<<"Ada", "Acme">> :> [future_hours |-> 57, status |-> Stable])}
MarginInputs ==
  {[df |-> t, program_mrr |-> m, future_map |-> f] :
     t \in MarginTables, m \in MarginRegistries, f \in MarginFutures}

InitMargin == NoSession /\ arg \in MarginInputs /\ out = NotCalled

MarginApp ==
  /\ out.pc = "start"
  /\ out' = [fn |-> "app", pc |-> "done",
             result |-> calculate_margin(arg.df, arg.program_mrr)]
  /\ UNCHANGED <<session, arg>>

MarginUtils ==
  /\ out.pc = "start"
  /\ out' = [fn |-> "utils", pc |-> "done",
             result |-> utils_calculate_margin(arg.df, arg.program_mrr, arg.future_map)]
  /\ UNCHANGED <<session, arg>>

NextMargin == MarginApp \/ MarginUtils

SpecMargin == InitMargin /\ [][NextMargin]_vars

\* ------------------------------------------------------------------ claims
Mutating ==
  {"set_cell", "grid_edit", "add_employee", "remove_employee",
   "add_program", "remove_program"}
TableEdits == {"set_cell", "grid_edit", "add_employee", "remove_employee", "undo"}

TopSnapshot == heap[undo_stack[Len(undo_stack)]]

\* C1: a mutation (set-cell, grid edit, add/remove employee, add/remove
\* program) that acts leaves on top of the history a snapshot equal to the
\* table it started from, and an undo right after it makes the current table
\* equal to that table, utilization column included, with the history one
\* entry shorter than it was after the mutation.
UndoRoundTrip ==
  /\ (last.op \in Mutating /\ last.ok) =>
       undo_stack # <<>> /\ TopSnapshot = last.pre
  /\ (last.op = "undo" /\ last.ok /\ prev.op \in Mutating /\ prev.ok) =>
       CurTable = prev.pre /\ Len(undo_stack) = last.preLen - 1

UndoRoundTripWitness ==
  /\ last.op = "undo" /\ last.ok
  /\ prev.op \in Mutating /\ prev.ok
  /\ prev.pre # last.pre
  /\ CurTable = prev.pre

\* C2: the undo stack never holds more than 10 snapshots, and a push (a
\* mutation that acts) leaves the snapshots that were stored followed by the
\* pre-mutation table, cut to the 10 most recent: at 10 stored snapshots the
\* oldest is the one discarded and the order of the others is kept.
HistoryBound ==
  [][/\ Len(undo_stack') <= HistoryLimit
     /\ (last'.op \in Mutating /\ last'.ok) =>
          StackTables' = LastN(Append(StackTables, CurTable), HistoryLimit)]_vars

HistoryBoundWitness ==
  /\ last.op \in Mutating /\ last.ok
  /\ last.preLen = HistoryLimit
  /\ Len(undo_stack) = HistoryLimit
  /\ StackTables[1] # StackTables[2]

\* C3: after n mutations that took the table through T0 .. Tn the newest
\* min(n, 10) snapshots are T(n-1), T(n-2), ... unaltered, and after k
\* consecutive undos, 1 <= k <= min(n, 10), the current table is T(n-k).
LifoUndo ==
  LET len == Len(run.tail)
      m == Min(len - 1, HistoryLimit)
  IN  /\ run.k = 0 =>
           \A j \in 1 .. m :
             /\ j <= Len(undo_stack)
             /\ heap[undo_stack[Len(undo_stack) - j + 1]] = run.tail[len - j]
      /\ (run.k >= 1 /\ run.k <= m) => CurTable = run.tail[len - run.k]

LifoUndoWitness ==
  /\ run.n = HistoryLimit + 1
  /\ run.k = HistoryLimit
  /\ last.op = "undo" /\ last.ok
  /\ CurTable = run.tail[1]
  /\ run.tail[1] # run.tail[2]

\* the utilization the row's hours and capacity give
ExpectedUtilization(t, e) ==
  IF t.cap[e] > 0
  THEN RoundHalfEven(100 * SumOver(t.hours[e], t.progs), t.cap[e])
  ELSE 0

Consistent(t) ==
  \A e \in t.index :
    t.hasCap /\ t.hasUtil /\ t.util[e] = ExpectedUtilization(t, e)

\* C4: after every handler run (session start, upload, set-cell, grid edit,
\* add/remove employee, add/remove program, undo, reset) every row's
\* utilization is round(sum of its program hours / capacity * 100), 0 when
\* the capacity is <= 0; a value written to the utilization column by a grid
\* edit does not survive.
UtilizationConsistent == Consistent(CurTable)

UtilizationConsistentWitness ==
  /\ last.op = "grid_edit"
  /\ last.prog = "Current Hours to Target"
  /\ CurTable.util[last.emp] # last.val
  /\ CurTable.util[last.emp] # 0

\* C5: an undo run on an empty stack leaves the current table, the revenue
\* registry and the empty stack as they were.
UndoEmptyNoOp ==
  (last.op = "undo" /\ last.preLen = 0) =>
    /\ CurTable = last.pre
    /\ program_mrr = last.preMrr
    /\ undo_stack = <<>>

UndoEmptyNoOpWitness ==
  /\ last.op = "undo" /\ last.preLen = 0
  /\ ~IsEmpty(CurTable)

\* C6: add-employee with a name already in the index and add-program with a
\* name that is already a column change neither the frames, nor the current
\* table, nor the undo stack, nor the revenue registry.
DuplicateAddNoOp ==
  [][((last'.op = "add_employee" /\ last'.emp \in CurTable.index) \/
      (last'.op = "add_program" /\ last'.prog \in Columns(CurTable))) =>
       UNCHANGED <<heap, df, undo_stack, program_mrr>>]_vars

DuplicateAddNoOpWitness ==
  /\ last.op = "add_program" /\ ~last.ok
  /\ last.prog \in CurTable.progs
  /\ \E e \in CurTable.index : CurTable.hours[e][last.prog] # 0
  /\ last.prog \in DOMAIN program_mrr /\ program_mrr[last.prog] # last.val

\* C7: remove-program(p) leaves neither a column p nor a registry entry for
\* p; an add-program(p, r) that acts gives p the revenue r; and a registry
\* entry only ever appears through an add-program, with the revenue given to
\* it, an upload or a session start, so the revenue p had before its removal
\* does not come back.
RemoveProgramClearsRevenue ==
  [][/\ last'.op = "remove_program" =>
          /\ last'.prog \notin Columns(heap'[df'])
          /\ last'.prog \notin DOMAIN program_mrr'
     /\ (last'.op = "add_program" /\ last'.ok) =>
          /\ last'.prog \in heap'[df'].progs
          /\ program_mrr'[last'.prog] = last'.val
     /\ \A p \in DOMAIN program_mrr' \ DOMAIN program_mrr :
          \/ last'.op = "add_program" /\ last'.prog = p
          \/ last'.op \in {"upload", "reset"}]_vars

RemoveProgramClearsRevenueWitness ==
  /\ last.op = "add_program" /\ last.ok
  /\ prev.op = "remove_program" /\ prev.prog = last.prog
  /\ last.prog \in DOMAIN prev.preMrr
  /\ prev.preMrr[last.prog] # last.val
  /\ program_mrr[last.prog] = last.val

\* C8: set-cell, grid edit, add-employee, remove-employee and undo leave the
\* revenue registry as it was, and an entry leaves the registry only through
\* the remove-program of its column or a reset.
RegistryLifecycle ==
  [][/\ last'.op \in TableEdits => program_mrr' = program_mrr
     /\ \A p \in DOMAIN program_mrr \ DOMAIN program_mrr' :
          \/ last'.op = "remove_program" /\ last'.prog = p
          \/ last'.op = "reset"]_vars

RegistryLifecycleWitness ==
  /\ last.op = "undo" /\ last.ok
  /\ prev.op = "add_program" /\ prev.ok
  /\ prev.prog \notin Columns(CurTable)
  /\ prev.prog \in DOMAIN program_mrr

\* C9: on a file that cannot be read process_uploaded_file returns the empty
\* frame and the empty revenue map, and the upload then changes neither the
\* table, nor the registry, nor the undo stack; an upload that acts installs
\* a table whose utilization is already recomputed.
IngestionFailureAtomic ==
  [][\A f \in UploadFiles :
       (last'.op = "upload" /\ last'.emp = f.name) =>
         /\ ~f.readable =>
              /\ process_uploaded_file(f) = [df |-> EmptyParsed, mrr |-> EmptyMap]
              /\ UNCHANGED <<heap, df, undo_stack, program_mrr>>
         /\ last'.ok => Consistent(heap'[df']) /\ heap'[df'].index # {}]_vars

IngestionFailureAtomicWitness ==
  /\ last.op = "upload" /\ last.emp = UnreadableFile.name /\ ~last.ok
  /\ undo_stack # <<>>
  /\ ~IsEmpty(CurTable)

\* C10: every program-hour cell of the current table is >= 0.
NonNegativeHours ==
  \A e \in CurTable.index : \A p \in CurTable.progs : CurTable.hours[e][p] >= 0

CapacityKeepers ==
  {"set_cell", "add_employee", "remove_employee", "add_program", "remove_program"}

\* C11: the recompute of an uploaded table adds Capacity = 152 for every row
\* exactly when the table has no Capacity column and keeps the capacities it
\* has otherwise, and the added column is no program column and no part of
\* the hours the utilization is computed from; set-cell, add-employee,
\* remove-employee, add-program and remove-program (each ending with a
\* recompute) leave the capacity of every row that stays as it was, and a
\* newly added employee gets 152.
CapacityBackfill ==
  [][/\ (last'.op = "upload" /\ last'.ok) =>
          LET t0 == set_index(Ingested[last'.emp].df)
              t1 == heap'[df']
          IN  /\ t1.hasCap /\ t1.index = t0.index /\ t1.progs = t0.progs
              /\ "Capacity" \notin t1.progs
              /\ \A e \in t1.index :
                   /\ t1.cap[e] = IF t0.hasCap THEN t0.cap[e] ELSE STANDARD_CAPACITY
                   /\ t1.util[e] =
                        IF t1.cap[e] > 0
                        THEN RoundHalfEven(100 * SumOver(t0.hours[e], t0.progs), t1.cap[e])
                        ELSE 0
     /\ (last'.op \in CapacityKeepers /\ last'.ok) =>
          /\ ~IsEmpty(heap'[df']) => heap'[df'].hasCap
          /\ CurTable.hasCap =>
               \A e \in CurTable.index \cap heap'[df'].index :
                 heap'[df'].cap[e] = CurTable.cap[e]
          /\ last'.op = "add_employee" =>
               heap'[df'].cap[last'.emp] = STANDARD_CAPACITY]_vars

\* a long-format upload was backfilled, one capacity was then set to 0 in the
\* grid, and a later cell edit of that row recomputed without touching it
CapacityBackfillWitness ==
  /\ last_processed = LongFile.name
  /\ last.op = "set_cell" /\ last.ok
  /\ CurTable.cap[last.emp] = 0
  /\ \E e \in CurTable.index : CurTable.cap[e] = STANDARD_CAPACITY

\* C17: a second recalculate_utilization on the frame the first one returned
\* returns the same frame: the same columns, capacities and utilization.
RecomputeIdempotent ==
  \A i \in 2 .. Len(out) : out[i] = out[1]

\* a frame without Capacity column was backfilled and recomputed twice
RecomputeIdempotentWitness ==
  /\ Len(out) = RecomputePasses
  /\ ~IsEmpty(arg) /\ ~arg.hasCap /\ out[1].hasCap
  /\ arg.hasUtil /\ \E e \in arg.index : out[2].util[e] # arg.util[e]

\* the long-format input as the file spells it
InputRows == DOMAIN arg.file.rows
InputEmployees == {arg.file.rows[i]["CT Name"] : i \in InputRows} \ {""}
InputPrograms == {arg.file.rows[i]["Program"] : i \in InputRows} \ {""}
\* the hours of row i in column h: the number the cell spells, 0 otherwise
InputHours(i, h) ==
  IF arg.file.rows[i][h] \in DOMAIN NumberOf THEN NumberOf[arg.file.rows[i][h]] ELSE 0
InputSum(e, p, h) ==
  LET match == {i \in InputRows :
                  arg.file.rows[i]["CT Name"] = e /\ arg.file.rows[i]["Program"] = p}
  IN  SumOver([i \in match |-> InputHours(i, h)], match)

\* C12: the table returned for a long-format file with an Hours column has
\* exactly one row per distinct employee and one column per distinct program
\* of the file, and every cell (e, p) is the sum of the hours of the rows of
\* (e, p), 0 when there is none.
PivotCorrect ==
  (out.pc = "done" /\ arg.file.readable /\ "Hours" \in Range(arg.file.columns)) =>
    LET t == out.result.df
    IN  /\ {t.rows[k]["Employee"] : k \in DOMAIN t.rows} = InputEmployees
        /\ Len(t.rows) = Cardinality(InputEmployees)
        /\ Range(t.columns) \ {"Employee", "Role"} = InputPrograms
        /\ \A k \in DOMAIN t.rows : \A p \in InputPrograms :
             t.rows[k][p] = Num(InputSum(t.rows[k]["Employee"], p, "Hours"))

\* the step of the future-state loop that handles row i
HandlesRow(i) == out.pc = "rows" /\ out.i = i /\ out'.pc = "rows" /\ out'.i = i + 1
InputColumn(c) == c \in Range(arg.file.columns)
InputKey(i) == <<arg.file.rows[i]["CT Name"], arg.file.rows[i]["Program"]>>
\* the date cell of row i in column c is a date at most n calendar days
\* after today (or in the past)
InputDateWithin(i, c, n) ==
  /\ InputColumn(c)
  /\ arg.file.rows[i][c] \in DOMAIN DayOf
  /\ DayOf[arg.file.rows[i][c]] - arg.today.day <= n

\* C13: the entry the loop writes for a row whose end date exists and lies at
\* most 30 days after now, past dates included, has projected hours 0 and
\* the status Rolling off, whatever its change date and future hours are.
RollingOffPriority ==
  [][\A i \in InputRows :
       (HandlesRow(i) /\ InputDateWithin(i, "End Date", 30)) =>
         /\ out'.future[InputKey(i)].future_hours = 0
         /\ out'.future[InputKey(i)].status.kind = "Rolling off"]_vars

\* a row inside both windows whose future hours differ from its hours
RollingOffPriorityWitness ==
  /\ out.pc = "rows" /\ out.i = 2
  /\ InputDateWithin(1, "End Date", 30)
  /\ arg.file.rows[1]["End Date"] = "2026-01-31"
  /\ InputDateWithin(1, "Change Date", 60)
  /\ InputHours(1, "Future Hours") # InputHours(1, "Hours")
  /\ out.future[InputKey(1)].status.kind = "Rolling off"
  /\ out.future[InputKey(1)].future_hours = 0

\* C14: the entry written for a row that is not rolling off is Ramping with
\* projected hours = future hours, Increasing iff future > current, exactly
\* when its change date exists and lies at most 60 days after now and its
\* future hours differ from its hours; otherwise it is Stable with projected
\* hours = the row's hours.
RampingOrStable ==
  [][\A i \in InputRows :
       (HandlesRow(i) /\ out'.future[InputKey(i)].status.kind # "Rolling off") =>
         LET e == out'.future[InputKey(i)]
             cur == InputHours(i, "Hours")
             fut == IF InputColumn("Future Hours") THEN InputHours(i, "Future Hours")
                    ELSE cur
         IN  IF InputDateWithin(i, "Change Date", 60) /\ fut # cur
             THEN /\ e.status.kind = "Ramping"
                  /\ e.future_hours = fut
                  /\ e.status.direction = IF fut > cur THEN "Increasing" ELSE "Decreasing"
             ELSE /\ e.status.kind = "Stable"
                  /\ e.future_hours = cur]_vars

\* C19: in what utils.process_uploaded_file returns for a long-format file,
\* the projected hours of every pair whose status is Stable equal the pair's
\* hours in the pivoted table.
StableProjectedIsPivot ==
  (out.pc = "done" /\ out.fn = "utils") =>
    LET t == out.result.df
    IN  \A key \in DOMAIN out.result.future :
          \A k \in DOMAIN t.rows :
            (/\ out.result.future[key].status.kind = "Stable"
             /\ t.rows[k]["Employee"] = key[1]
             /\ key[2] \in t.num) =>
              t.rows[k][key[2]] = Num(out.result.future[key].future_hours)

\* C16: for a long-format file none of whose headers is an exact hours
\* candidate, the returned table is pivoted on the first header containing
\* 'Allocated' when there is one (program columns holding the sums of that
\* column, no Program and no hours column left), and is the file's table
\* with only CT Name renamed to Employee when there is none.
HoursFallback ==
  (out.pc = "done" /\ arg.file.readable /\ "Hours" \notin Range(arg.file.columns)) =>
    LET t == out.result.df
        found == {j \in DOMAIN arg.file.columns : arg.file.columns[j] \in HasAllocated}
        h == arg.file.columns[CHOOSE j \in found : \A x \in found : j <= x]
    IN  IF found # {}
        THEN /\ "Program" \notin Range(t.columns) /\ h \notin Range(t.columns)
             /\ InputPrograms \subseteq Range(t.columns)
             /\ \A k \in DOMAIN t.rows : \A p \in InputPrograms :
                  (\E i \in InputRows :
                     /\ arg.file.rows[i]["CT Name"] = t.rows[k]["Employee"]
                     /\ arg.file.rows[i]["Program"] # "") =>
                    t.rows[k][p] = Num(InputSum(t.rows[k]["Employee"], p, h))
        ELSE /\ t.columns = [j \in DOMAIN arg.file.columns |->
                               IF arg.file.columns[j] = "CT Name" THEN "Employee"
                               ELSE arg.file.columns[j]]
             /\ Len(t.rows) = Len(arg.file.rows)

\* the cost of program p: the sum over the employees of hours x the rate of
\* the employee's role on the rate card of the function called
CostOf(p) ==
  LET card == IF out.fn = "app" THEN RATE_CARD ELSE utils_RATE_CARD
  IN  SumOver([e \in arg.df.index |->
                 arg.df.hours[e][p] * get_rate(arg.df.role[e], card)],
              arg.df.index)

\* C15: calculate_margin returns an entry for every program column; its cost
\* is the sum of hours x rate, its margin_pct is (revenue - cost) / revenue
\* * 100 when the revenue is > 0, and with revenue 0 or no registry entry it
\* is exactly -100 when the cost is > 0 and exactly 0 when the cost is 0.
MarginSentinels ==
  (out.pc = "done" /\ ~IsEmpty(arg.df)) =>
    /\ DOMAIN out.result = arg.df.progs
    /\ \A p \in arg.df.progs :
         LET m == out.result[p].margin_pct
             revenue == IF p \in DOMAIN arg.program_mrr THEN arg.program_mrr[p] ELSE 0
         IN  /\ out.fn = "app" => out.result[p].cost = CostOf(p)
             /\ m.den # 0
             /\ revenue > 0 => m = Ratio((revenue - CostOf(p)) * 100, revenue)
             /\ (revenue = 0 /\ CostOf(p) > 0) => m = Ratio(0 - 100, 1)
             /\ (revenue = 0 /\ CostOf(p) = 0) => m = Ratio(0, 1)

\* a program without registry entry that costs something, next to a program
\* with revenue whose margin is neither sentinel
MarginSentinelsWitness ==
  /\ out.pc = "done" /\ out.fn = "app"
  /\ arg.df.progs = {"Acme", "Google"}
  /\ "Acme" \notin DOMAIN arg.program_mrr /\ out.result["Acme"].cost > 0
  /\ out.result["Acme"].margin_pct = Ratio(0 - 100, 1)
  /\ "Google" \in DOMAIN arg.program_mrr /\ arg.program_mrr["Google"] > 0
  /\ out.result["Google"].cost > 0
  /\ out.result["Google"].margin_pct.num # 0

\* C18: an upload that acts makes the recomputed table of the file the
\* current table, gives the registry the file's revenue entries and keeps
\* the other entries, and leaves the snapshots of the undo stack as they
\* were; an undo right after it makes the newest snapshot, a table from
\* before the upload, current; and the stack only loses snapshots one at a
\* time through undo, or all at once through Reset.
UploadKeepsHistory ==
  [][/\ (last'.op = "upload" /\ last'.ok) =>
          /\ StackTables' = StackTables
          /\ heap'[df'] = recalculate_utilization(set_index(Ingested[last'.emp].df))
          /\ program_mrr' =
               [p \in DOMAIN program_mrr \cup DOMAIN Ingested[last'.emp].mrr |->
                  IF p \in DOMAIN Ingested[last'.emp].mrr
                  THEN Ingested[last'.emp].mrr[p] ELSE program_mrr[p]]
     /\ (last.op = "upload" /\ last.ok /\ last'.op = "undo" /\ undo_stack # <<>>) =>
          /\ heap'[df'] = TopSnapshot
          /\ Len(undo_stack') = Len(undo_stack) - 1
     /\ Len(undo_stack') < Len(undo_stack) =>
          \/ last'.op = "reset" /\ undo_stack' = <<>>
          \/ last'.op = "undo" /\ Len(undo_stack') = Len(undo_stack) - 1]_vars

\* a table was edited, a file was uploaded over it, and the undo brought
\* the table from before the edit back
UploadKeepsHistoryWitness ==
  /\ last.op = "undo" /\ last.ok
  /\ prev.op = "upload" /\ prev.ok
  /\ prev.preLen = 1
  /\ CurTable # last.pre /\ CurTable # prev.pre
  /\ last_processed # Unset

====
